---- MODULE Spec2Model ----
(***************************************************************************)
(* The login-attempt orchestration of dawn-auto-login (src/index.js).      *)
(*                                                                         *)
(* src/index.js holds the script in several variants.  Two of them carry   *)
(* the retry policies:                                                     *)
(*   policy = "bounded"    the proxy variant     (src/index.js 630-985):   *)
(*                         loginAccount, LOGIN_RETRIES = 3, proxy rotation *)
(*   policy = "unbounded"  the Telegram variant  (src/index.js 987-1415):  *)
(*                         loginAccountWithRetry, while (true)             *)
(*                                                                         *)
(* The script is one async thread of control.  pc names the await at which *)
(* it is suspended; an action is the code that runs from the completion of *)
(* that await to the next one.                                             *)
(***************************************************************************)
EXTENDS Integers, Sequences, FiniteSets, TLC

\* ------------------------------------------------------------- bounds
NAccounts == 2      \* at most this many lines in file.txt
MaxProxies == 3     \* at most this many lines in proxies.txt
MaxAttempts == 3    \* cap on loginAttempt of the while (true) loop
NChats == 2         \* Telegram chats that write to the bot

\* -------------------------------------------------- program constants
MAX_RETRIES == 3
LOGIN_RETRIES == 3
INITIAL_RETRY_DELAY == 5000
SUB_DELAY == 1000          \* setTimeout(resolve, 1000 * attempt)
CAPTCHA_DELAY == 2000      \* setTimeout(resolve, 2000 * attempt)
LOGIN_DELAY == 5000        \* setTimeout(resolve, 5000 * loginAttempt)
ACCOUNT_PAUSE == 2000      \* setTimeout(resolve, 2000) between accounts
CAPTCHA_TIMEOUT == 120000
SERVER_POINTS == 5         \* the reward points the server's points response carries
MaxFieldValue == 1         \* largest value of a member of a points response

VARIABLES
  policy,            \* which variant of the script runs
  model,             \* let model: the solver type
  useProxies,        \* let useProxies
  proxyList,         \* let proxyList
  currentProxyIndex, \* let currentProxyIndex
  fileReadable,      \* file.txt can be read
  credentials,       \* const credentials of main
  index,             \* index of the for..of loop of main
  successful,        \* let successful of main
  failed,            \* let failed of main
  countsEmitted,     \* the final counts have been printed
  pc,                \* the await the script is suspended at
  loginAttempt,      \* loop variable of loginAccount / loginAccountWithRetry
  attempt,           \* loop variable of the sub-request retry loops
  appId,             \* const appId of the current login attempt
  token,             \* const token of the current login attempt
  points,            \* const points of the current login attempt
  err,               \* the error caught by the orchestrator's catch
  wait,              \* the pending timer
  result,            \* the value the orchestrator returned
  successLog,        \* successful_logins.txt
  failLog,           \* failed_logins.txt
  appIdSeq,          \* history: number of generateAppId calls of the run
  gens,              \* history: generateAppId calls of the current attempt
  appIdOwner,        \* history: <<index, loginAttempt>> that generated appId
  attemptsMade,      \* history: login attempts begun for this account
  tries,             \* history: tries made by the current sub-operation call
  backoffs,          \* history: login backoff waits made for this account
  lastDelay,         \* history: the login backoff waited before this attempt
  proxyCalls,        \* history: number of getProxyAgent calls of the run
  lastProxy,         \* history: what the last getProxyAgent call returned
  lastReq,           \* history: the last HTTP request of the current attempt
  pointsResp,        \* history: what the last points query of the attempt got
  telegramChatId,    \* let telegramChatId
  firstChat,         \* history: the chat of the first message the bot received
  lastChat,          \* history: the chat of the last message the bot received
  listeners,         \* pending once('message') listeners of telegramBot
  notes,             \* history: status messages sent for the current attempt
  delivery,          \* history: how the last sendMessage of a status ended
  ops,               \* history: the operations the current attempt has called
  inflight           \* history: operations called and not yet settled

vars == <<policy, model, useProxies, proxyList, currentProxyIndex,
          fileReadable, credentials,
          index, successful, failed, countsEmitted, pc, loginAttempt, attempt,
          appId, token, points, err, wait, result, successLog, failLog,
          appIdSeq, gens, appIdOwner, attemptsMade, tries, backoffs, lastDelay,
          proxyCalls, lastProxy, lastReq, pointsResp, telegramChatId,
          firstChat, lastChat, listeners, notes, delivery, ops,
          inflight>>

cfgVars == <<policy, model, useProxies, proxyList, fileReadable, credentials>>
mainVars == <<index, successful, failed, countsEmitted>>
logVars == <<successLog, failLog>>
proxyVars == <<currentProxyIndex, proxyCalls, lastProxy>>
idVars == <<appId, appIdSeq, gens, appIdOwner>>
tgVars == <<telegramChatId, firstChat, lastChat, listeners>>

NoProxy == 0
NoChat == 0
NoWait == [kind |-> "none", num |-> 0, den |-> 1]
NoReq == [op |-> "none", appid |-> 0, proxy |-> NoProxy]
NoDelay == [num |-> 0, den |-> 1]

\* An optional JSON member is <<>> when absent and <<v>> when present.
Absent == <<>>
Present(v) == <<v>>
Optional(S) == {Absent} \cup {Present(v) : v \in S}

\* data.data of a points response: referralPoint and rewardPoint are optional
\* objects, their six numeric members are optional too
PointValues == 0..MaxFieldValue
ReferralPoints == [commission : Optional(PointValues)]
RewardPoints == [points : Optional(PointValues),
                 registerpoints : Optional(PointValues),
                 twitter_x_id_points : Optional(PointValues),
                 discordid_points : Optional(PointValues),
                 telegramid_points : Optional(PointValues)]
PointsData == [referralPoint : Optional(ReferralPoints),
               rewardPoint : Optional(RewardPoints)]
NoData == [referralPoint |-> Absent, rewardPoint |-> Absent]
NoResp == [kind |-> "none", data |-> NoData]

SolverTypes == {"2captcha", "gemini", "manual", "telegram"}

\* msg.chat.id of the messages the bot receives
Chats == 1..NChats

RECURSIVE Pow(_, _)
Pow(b, n) == IF n = 0 THEN 1 ELSE b * Pow(b, n - 1)

\* { email, password } of line i of file.txt
Cred(i) == [email |-> i, password |-> 100 + i]

\* readCredentials: the email:password lines of file.txt, or [] when
\* readFile threw (the error is logged and swallowed)
readCredentials(readable, lines) == IF readable THEN lines ELSE <<>>

Init ==
  /\ policy \in {"bounded", "unbounded"}
  /\ model \in (IF policy = "bounded" THEN {"2captcha"} ELSE SolverTypes)
  /\ useProxies \in (IF policy = "bounded" THEN BOOLEAN ELSE {FALSE})
  /\ \E k \in 0..MaxProxies :
       /\ useProxies \/ k = 0
       /\ proxyList = [i \in 1..k |-> i]
  /\ currentProxyIndex = 0
  /\ fileReadable \in BOOLEAN
  /\ \E n \in 0..NAccounts :
       /\ fileReadable \/ n = 0
       /\ credentials = readCredentials(fileReadable, [i \in 1..n |-> Cred(i)])
  /\ index = 0
  /\ successful = 0
  /\ failed = 0
  /\ countsEmitted = FALSE
  /\ pc = IF policy = "unbounded" /\ model = "telegram"
          THEN "wait_chat_id" ELSE "main_start"
  /\ loginAttempt = 0
  /\ attempt = 0
  /\ appId = 0
  /\ token = 0
  /\ points = 0
  /\ err = "none"
  /\ wait = NoWait
  /\ result = FALSE
  /\ successLog = <<>>
  /\ failLog = <<>>
  /\ appIdSeq = 0
  /\ gens = 0
  /\ appIdOwner = <<0, 0>>
  /\ attemptsMade = 0
  /\ tries = 0
  /\ backoffs = 0
  /\ lastDelay = NoDelay
  /\ proxyCalls = 0
  /\ lastProxy = NoProxy
  /\ lastReq = NoReq
  /\ pointsResp = NoResp
  /\ telegramChatId = NoChat
  /\ firstChat = NoChat
  /\ lastChat = NoChat
  /\ listeners = 0
  /\ notes = <<>>
  /\ delivery = "none"
  /\ ops = <<>>
  /\ inflight = [net |-> 0, write |-> 0]

\* ------------------------------------------------------ status messages
\* let telegramBot: set by setupCaptchaSolver for the solver type 'telegram'
telegramBot == policy = "unbounded" /\ model = "telegram"

\* sendTelegramStatus sends only if (telegramBot && telegramChatId)
SinkOpen == telegramBot /\ telegramChatId # NoChat

\* sendTelegramStatus: try { await sendMessage } catch { console.log }: the
\* call returns the same way whether the message was sent or sendMessage
\* rejected
sendMessageSettled == \E d \in {"sent", "failed"} : delivery' = d

\* await sendTelegramStatus(kind) inside the orchestrator: with the sink open
\* the script is suspended on sendMessage at notifyPc, else it runs on to
\* nextPc
sendTelegramStatus(kind, notifyPc, nextPc) ==
  IF SinkOpen
  THEN /\ pc' = notifyPc
       /\ notes' = Append(notes, kind)
  ELSE /\ pc' = nextPc
       /\ notes' = notes

\* ------------------------------------------------ operations in flight
\* the awaits of a request, of the solver and of sendMessage
NetAwaits ==
  {"fetch_puzzleId", "fetch_puzzleImage", "fetch_login", "fetch_points",
   "solve", "solve_wait", "notify_starting", "notify_processing",
   "notify_attempt", "notify_success", "notify_failed", "notify_waiting",
   "notify_completed"}

\* the awaits of fs.appendFile
WriteAwaits == {"append_success", "append_failure"}

\* the operation awaited at p has settled
Settled(f, p) ==
  IF p \in NetAwaits THEN [f EXCEPT !.net = @ - 1]
  ELSE IF p \in WriteAwaits THEN [f EXCEPT !.write = @ - 1]
  ELSE f

\* the operation awaited at q is called
Called(f, q) ==
  IF q \in NetAwaits THEN [f EXCEPT !.net = @ + 1]
  ELSE IF q \in WriteAwaits THEN [f EXCEPT !.write = @ + 1]
  ELSE f

\* faulty variant: the script goes on to the next operation without
\* awaiting the one it called
Handoff_noAwait ==
  inflight' = IF pc' = pc THEN inflight ELSE Called(inflight, pc')

\* A step of the script resumes when the operation it awaited has settled
\* and runs until the next await: every call is awaited where it is made.
\* A Telegram message that arrives meanwhile settles nothing.
Handoff ==
  inflight' = IF pc' = pc THEN inflight ELSE Called(Settled(inflight, pc), pc')

\* ------------------------------------------------- operations called
\* the orchestrator calls op (a helper function or appendFile)
Issue(op) == ops' = Append(ops, op)

\* fs.appendFile of the success line is called by the step that arrives at
\* its await
RecordIssued ==
  ops' = IF pc' = "append_success" THEN Append(ops, "record") ELSE ops

\* ---------------------------------------------------- proxy rotator
\* getProxyAgent: the proxy the call returns (the agent built from it)
getProxyAgentReturn(use, list, cur) ==
  IF ~use \/ Len(list) = 0 THEN NoProxy ELSE list[cur + 1]

\* faulty variant: the cursor is never advanced
getProxyAgentCursor_stuck(use, list, cur) == cur

\* getProxyAgent: currentProxyIndex after the call
getProxyAgentCursor(use, list, cur) ==
  IF ~use \/ Len(list) = 0 THEN cur ELSE (cur + 1) % Len(list)

\* faulty variant: the proxy is chosen by the first request of an attempt
\* and kept for the other requests of the attempt
Send_perAttempt(op, id) ==
  IF policy = "bounded"
  THEN IF op = "puzzle_id"
       THEN /\ lastProxy' = getProxyAgentReturn(useProxies, proxyList, currentProxyIndex)
            /\ currentProxyIndex' = getProxyAgentCursor(useProxies, proxyList, currentProxyIndex)
            /\ proxyCalls' = proxyCalls + 1
            /\ lastReq' = [op |-> op, appid |-> id, proxy |-> lastProxy']
       ELSE /\ UNCHANGED proxyVars
            /\ lastReq' = [op |-> op, appid |-> id, proxy |-> lastProxy]
  ELSE /\ UNCHANGED proxyVars
       /\ lastReq' = [op |-> op, appid |-> id, proxy |-> NoProxy]

\* One HTTP request carrying identity id.  The proxy variant calls
\* getProxyAgent() right before each fetch; the Telegram variant has no
\* proxy code and fetches directly.
Send(op, id) ==
  IF policy = "bounded"
  THEN /\ lastProxy' = getProxyAgentReturn(useProxies, proxyList, currentProxyIndex)
       /\ currentProxyIndex' = getProxyAgentCursor(useProxies, proxyList, currentProxyIndex)
       /\ proxyCalls' = proxyCalls + 1
       /\ lastReq' = [op |-> op, appid |-> id, proxy |-> lastProxy']
  ELSE /\ UNCHANGED proxyVars
       /\ lastReq' = [op |-> op, appid |-> id, proxy |-> NoProxy]

\* ------------------------------------------------------- retry delays
\* faulty variant: the sub-request delay does not grow with the try
subRetryDelay_const(n) == SUB_DELAY

\* delay of the sub-request retry loops: 1000 * attempt
subRetryDelay(n) == SUB_DELAY * n

\* faulty variant: the captcha loop sleeps like the sub-request loops
captchaRetryDelay_sub(n) == SUB_DELAY * n

\* delay of the captcha retry loop of the proxy variant: 2000 * attempt
captchaRetryDelay(n) == CAPTCHA_DELAY * n

\* faulty variant: the wait does not grow with the attempt
loginRetryDelay_flat(n) == [num |-> LOGIN_DELAY, den |-> 1]

\* delay of loginAccount: 5000 * loginAttempt
loginRetryDelay(n) == [num |-> LOGIN_DELAY * n, den |-> 1]

\* faulty variant: the exponent is attempt instead of attempt - 1
calculateRetryDelay_offByOne(n) ==
  [num |-> INITIAL_RETRY_DELAY * Pow(3, n), den |-> Pow(2, n)]

\* calculateRetryDelay: INITIAL_RETRY_DELAY * Math.pow(1.5, attempt - 1), kept
\* exact as the fraction 5000 * 3^(attempt-1) / 2^(attempt-1)
calculateRetryDelay(n) ==
  [num |-> INITIAL_RETRY_DELAY * Pow(3, n - 1), den |-> Pow(2, n - 1)]

SubWait(ms) == [kind |-> "sub", num |-> ms, den |-> 1]
LoginWait(d) == [kind |-> "login", num |-> d.num, den |-> d.den]

\* the retry loops give up when attempt === MAX_RETRIES
lastTry(n) == n = MAX_RETRIES

\* faulty variant: the budget check is off by one
lastLoginAttempt_early(n) == n = LOGIN_RETRIES - 1

\* loginAccount gives up when loginAttempt === LOGIN_RETRIES
lastLoginAttempt(n) == n = LOGIN_RETRIES

\* ------------------------------------------------ orchestrator catch
\* faulty variant: the catch of loginAccountWithRetry keeps the budget check of
\* loginAccount
Raise_budgeted(e) ==
  /\ err' = e
  /\ IF loginAttempt = LOGIN_RETRIES
     THEN /\ pc' = "append_failure"
          /\ wait' = NoWait
     ELSE /\ pc' = "sleep_login"
          /\ wait' = LoginWait(IF policy = "bounded"
                               THEN loginRetryDelay(loginAttempt)
                               ELSE calculateRetryDelay(loginAttempt))
  /\ UNCHANGED notes

\* faulty variant: the catch goes round the loop without waiting
Raise_noWait(e) ==
  /\ err' = e
  /\ IF policy = "bounded" /\ loginAttempt = LOGIN_RETRIES
     THEN /\ pc' = "append_failure"
          /\ wait' = NoWait
     ELSE /\ pc' = "sleep_login"
          /\ wait' = NoWait
  /\ UNCHANGED notes

\* An error e thrown inside the try block of the orchestrator.
\* loginAccount: the last attempt appends to failed_logins.txt, any other
\* waits 5000 * loginAttempt.  loginAccountWithRetry: reports the failure,
\* then the delay, and always waits calculateRetryDelay(loginAttempt).
Raise(e) ==
  /\ err' = e
  /\ IF policy = "bounded"
     THEN /\ IF lastLoginAttempt(loginAttempt)
             THEN /\ pc' = "append_failure"
                  /\ wait' = NoWait
             ELSE /\ pc' = "sleep_login"
                  /\ wait' = LoginWait(loginRetryDelay(loginAttempt))
          /\ UNCHANGED notes
     ELSE /\ sendTelegramStatus("failed", "notify_failed", "sleep_login")
          /\ wait' = IF SinkOpen
                     THEN NoWait
                     ELSE LoginWait(calculateRetryDelay(loginAttempt))

\* ------------------------------------------------------ Telegram bot
\* faulty variant: every message rebinds the chat
onMessage_rebind(chat) ==
  /\ telegramChatId' = chat
  /\ firstChat' = IF firstChat = NoChat THEN chat ELSE firstChat
  /\ lastChat' = chat

\* telegramBot.on('message', ...): if (!telegramChatId) telegramChatId =
\* msg.chat.id
onMessage(chat) ==
  /\ telegramChatId' = IF telegramChatId = NoChat THEN chat ELSE telegramChatId
  /\ firstChat' = IF firstChat = NoChat THEN chat ELSE firstChat
  /\ lastChat' = chat

\* the bot polls from setupCaptchaSolver until cleanup calls stopPolling
Polling == telegramBot /\ pc \notin {"no_credentials", "done"}

\* A message arrives while processCaptcha is not waiting for a reply: the
\* 'message' handler runs, and so does every once('message') listener a
\* timed-out wait left behind (its promise is settled already)
TelegramMessage ==
  /\ Polling
  /\ pc # "solve_wait"
  /\ \E chat \in Chats : onMessage(chat)
  /\ listeners' = 0
  /\ UNCHANGED <<inflight, ops, delivery, notes, pointsResp, attemptsMade, cfgVars, mainVars, logVars, proxyVars,
                 idVars, pc, loginAttempt, attempt, token, points, err, wait,
                 result, tries, backoffs, lastDelay, lastReq>>

\* main: the interval sees telegramChatId set; readCredentials follows
MainChatIdSet ==
  /\ pc = "wait_chat_id"
  /\ telegramChatId # NoChat
  /\ pc' = "main_start"
  /\ Handoff
  /\ UNCHANGED <<ops, delivery, tgVars, notes, pointsResp, attemptsMade, cfgVars, mainVars, logVars, proxyVars,
                 idVars, loginAttempt, attempt, token, points, err, wait,
                 result, tries, backoffs, lastDelay, lastReq>>

\* --------------------------------------------------------- batch runner
\* main: credentials.length === 0 ends the run before the loop
MainNoCredentials ==
  /\ pc = "main_start"
  /\ Len(credentials) = 0
  /\ pc' = "no_credentials"
  /\ Handoff
  /\ UNCHANGED <<ops, delivery, tgVars, notes, pointsResp, attemptsMade, cfgVars, mainVars, logVars, proxyVars, idVars, loginAttempt,
                 attempt, token, points, err, wait, result, tries, backoffs,
                 lastDelay, lastReq>>

\* main: let successful = 0; let failed = 0; and the loop begins
MainBegin ==
  /\ pc = "main_start"
  /\ Len(credentials) > 0
  /\ pc' = IF SinkOpen THEN "notify_starting" ELSE "main_loop"
  /\ index' = 0
  /\ successful' = 0
  /\ failed' = 0
  /\ Handoff
  /\ UNCHANGED <<ops, delivery, tgVars, notes, pointsResp, attemptsMade, cfgVars, countsEmitted, logVars, proxyVars, idVars,
                 loginAttempt, attempt, token, points, err, wait, result,
                 tries, backoffs, lastDelay, lastReq>>

\* faulty variant: the loop variable of the orchestrator is shared by the
\* accounts and set for the first one only
MainCallLogin_carry ==
  /\ pc = "main_loop"
  /\ index < Len(credentials)
  /\ pc' = IF SinkOpen THEN "notify_processing" ELSE "attempt_start"
  /\ notes' = <<>>
  /\ loginAttempt' = IF index = 0 THEN 1 ELSE loginAttempt
  /\ backoffs' = 0
  /\ lastDelay' = NoDelay
  /\ err' = "none"
  /\ attemptsMade' = 0
  /\ Handoff
  /\ UNCHANGED <<ops, delivery, tgVars, pointsResp, cfgVars, mainVars, logVars, proxyVars, idVars, attempt,
                 token, points, wait, result, tries, lastReq>>

\* main: the next credential is handed to the orchestrator, whose loop
\* variable starts at 1
MainCallLogin ==
  /\ pc = "main_loop"
  /\ index < Len(credentials)
  /\ pc' = IF SinkOpen THEN "notify_processing" ELSE "attempt_start"
  /\ notes' = <<>>
  /\ loginAttempt' = 1
  /\ backoffs' = 0
  /\ lastDelay' = NoDelay
  /\ err' = "none"
  /\ attemptsMade' = 0
  /\ Handoff
  /\ UNCHANGED <<ops, delivery, tgVars, pointsResp, cfgVars, mainVars, logVars, proxyVars, idVars, attempt,
                 token, points, wait, result, tries, lastReq>>

\* main: the loop is over and the counts are printed
MainFinish ==
  /\ pc = "main_loop"
  /\ index = Len(credentials)
  /\ pc' = IF SinkOpen THEN "notify_completed" ELSE "done"
  /\ countsEmitted' = TRUE
  /\ Handoff
  /\ UNCHANGED <<ops, delivery, tgVars, notes, pointsResp, attemptsMade, cfgVars, index, successful, failed, logVars, proxyVars,
                 idVars, loginAttempt, attempt, token, points, err, wait,
                 result, tries, backoffs, lastDelay, lastReq>>

\* the pause after an account: always in the proxy variant, only when
\* index < credentials.length - 1 in the Telegram variant
pauseAfter(i, n) == policy = "bounded" \/ i < n - 1

\* faulty variant: a failed account ends the loop
MainTakeResult_break ==
  /\ pc = "returned"
  /\ successful' = IF result THEN successful + 1 ELSE successful
  /\ failed' = IF result THEN failed ELSE failed + 1
  /\ IF ~result
     THEN /\ pc' = "main_loop"
          /\ index' = Len(credentials)
          /\ UNCHANGED wait
     ELSE IF pauseAfter(index, Len(credentials))
     THEN /\ pc' = "sleep_pause"
          /\ wait' = [kind |-> "pause", num |-> ACCOUNT_PAUSE, den |-> 1]
          /\ UNCHANGED index
     ELSE /\ pc' = "main_loop"
          /\ index' = index + 1
          /\ UNCHANGED wait
  /\ Handoff
  /\ UNCHANGED <<ops, delivery, tgVars, notes, pointsResp, attemptsMade, cfgVars, countsEmitted, logVars, proxyVars, idVars,
                 loginAttempt, attempt, token, points, err, result, tries,
                 backoffs, lastDelay, lastReq>>

\* main: if (result) successful++; else failed++; then the pause
MainTakeResult ==
  /\ pc = "returned"
  /\ successful' = IF result THEN successful + 1 ELSE successful
  /\ failed' = IF result THEN failed ELSE failed + 1
  /\ IF pauseAfter(index, Len(credentials))
     THEN /\ pc' = "sleep_pause"
          /\ wait' = [kind |-> "pause", num |-> ACCOUNT_PAUSE, den |-> 1]
          /\ UNCHANGED index
     ELSE /\ pc' = "main_loop"
          /\ index' = index + 1
          /\ UNCHANGED wait
  /\ Handoff
  /\ UNCHANGED <<ops, delivery, tgVars, notes, pointsResp, attemptsMade, cfgVars, countsEmitted, logVars, proxyVars, idVars,
                 loginAttempt, attempt, token, points, err, result, tries,
                 backoffs, lastDelay, lastReq>>

\* main: the pause is over, the loop moves to the next credential
MainPauseDone ==
  /\ pc = "sleep_pause"
  /\ pc' = "main_loop"
  /\ index' = index + 1
  /\ wait' = NoWait
  /\ Handoff
  /\ UNCHANGED <<ops, delivery, tgVars, notes, pointsResp, attemptsMade, cfgVars, successful, failed, countsEmitted, logVars,
                 proxyVars, idVars, loginAttempt, attempt, token, points, err,
                 result, tries, backoffs, lastDelay, lastReq>>

\* main: sendMessage of the 'Starting Login Process' status settled (sent or
\* failed and logged); the loop begins
NotifyStartingDone ==
  /\ pc = "notify_starting"
  /\ pc' = "main_loop"
  /\ sendMessageSettled
  /\ Handoff
  /\ UNCHANGED <<ops, tgVars, notes, pointsResp, attemptsMade, cfgVars, mainVars, logVars, proxyVars,
                 idVars, loginAttempt, attempt, token, points, err, wait,
                 result, tries, backoffs, lastDelay, lastReq>>

\* main: sendMessage of the 'Processing Account' status settled; the
\* orchestrator is called and reports its first attempt
NotifyProcessingDone ==
  /\ pc = "notify_processing"
  /\ pc' = "notify_attempt"
  /\ notes' = <<"attempt">>
  /\ sendMessageSettled
  /\ Handoff
  /\ UNCHANGED <<ops, tgVars, pointsResp, attemptsMade, cfgVars, mainVars, logVars, proxyVars,
                 idVars, loginAttempt, attempt, token, points, err, wait,
                 result, tries, backoffs, lastDelay, lastReq>>

\* main: sendMessage of the 'Processing Completed' status settled; cleanup
NotifyCompletedDone ==
  /\ pc = "notify_completed"
  /\ pc' = "done"
  /\ sendMessageSettled
  /\ Handoff
  /\ UNCHANGED <<ops, tgVars, notes, pointsResp, attemptsMade, cfgVars, mainVars, logVars, proxyVars,
                 idVars, loginAttempt, attempt, token, points, err, wait,
                 result, tries, backoffs, lastDelay, lastReq>>

\* ------------------------------------------------------- orchestrator
\* faulty variant: a rejected sendMessage is thrown into the catch block of
\* the orchestrator
NotifySuccessDone_throws ==
  /\ pc = "notify_success"
  /\ sendMessageSettled
  /\ IF delivery' = "failed"
     THEN Raise("transport")
     ELSE /\ pc' = "append_success"
          /\ UNCHANGED <<err, wait, notes>>
  /\ RecordIssued
  /\ Handoff
  /\ UNCHANGED <<tgVars, pointsResp, attemptsMade, cfgVars, mainVars, logVars,
                 proxyVars, idVars, loginAttempt, attempt, token, points,
                 result, tries, backoffs, lastDelay, lastReq>>

\* sendMessage of the 'Login Successful' status settled: the success line is
\* appended
NotifySuccessDone ==
  /\ pc = "notify_success"
  /\ pc' = "append_success"
  /\ sendMessageSettled
  /\ RecordIssued
  /\ Handoff
  /\ UNCHANGED <<tgVars, notes, pointsResp, attemptsMade, cfgVars, mainVars, logVars, proxyVars,
                 idVars, loginAttempt, attempt, token, points, err, wait,
                 result, tries, backoffs, lastDelay, lastReq>>

\* faulty variant: the delay is not reported before the wait
NotifyFailedDone_silent ==
  /\ pc = "notify_failed"
  /\ pc' = "sleep_login"
  /\ wait' = LoginWait(calculateRetryDelay(loginAttempt))
  /\ sendMessageSettled
  /\ Handoff
  /\ UNCHANGED <<ops, tgVars, notes, pointsResp, attemptsMade, cfgVars, mainVars, logVars, proxyVars,
                 idVars, loginAttempt, attempt, token, points, err,
                 result, tries, backoffs, lastDelay, lastReq>>

\* sendMessage of the 'Login Failed' status settled: the delay is computed
\* and reported
NotifyFailedDone ==
  /\ pc = "notify_failed"
  /\ pc' = "notify_waiting"
  /\ notes' = Append(notes, "waiting")
  /\ sendMessageSettled
  /\ Handoff
  /\ UNCHANGED <<ops, tgVars, pointsResp, attemptsMade, cfgVars, mainVars, logVars, proxyVars,
                 idVars, loginAttempt, attempt, token, points, err, wait,
                 result, tries, backoffs, lastDelay, lastReq>>

\* sendMessage of the 'Waiting' status settled: the wait begins
NotifyWaitingDone ==
  /\ pc = "notify_waiting"
  /\ pc' = "sleep_login"
  /\ wait' = LoginWait(calculateRetryDelay(loginAttempt))
  /\ sendMessageSettled
  /\ Handoff
  /\ UNCHANGED <<ops, tgVars, notes, pointsResp, attemptsMade, cfgVars, mainVars, logVars, proxyVars,
                 idVars, loginAttempt, attempt, token, points, err,
                 result, tries, backoffs, lastDelay, lastReq>>

\* generateAppId: a fresh identity, named by the ordinal of the call (the 22
\* random hex digits are taken never to repeat)
generateAppId(seq) == seq + 1

\* faulty variant: the identity is generated for the first attempt of an account
\* only and reused by its retries
AttemptStart_reuse ==
  /\ pc \in {"attempt_start", "notify_attempt"}
  /\ IF loginAttempt = 1
     THEN /\ appIdSeq' = appIdSeq + 1
          /\ appId' = generateAppId(appIdSeq)
          /\ gens' = 1
          /\ appIdOwner' = <<index, loginAttempt>>
     ELSE /\ gens' = 0
          /\ UNCHANGED <<appIdSeq, appId, appIdOwner>>
  /\ attemptsMade' = attemptsMade + 1
  /\ attempt' = 1
  /\ tries' = 1
  /\ Send("puzzle_id", appId')
  /\ pc' = "fetch_puzzleId"
  /\ err' = "none"
  /\ token' = 0
  /\ points' = 0
  /\ pointsResp' = NoResp
  /\ IF pc = "notify_attempt" THEN sendMessageSettled ELSE UNCHANGED delivery
  /\ ops' = <<"identity", "puzzle_id">>
  /\ Handoff
  /\ UNCHANGED <<tgVars, notes, cfgVars, mainVars, logVars, loginAttempt, wait, result,
                 backoffs, lastDelay>>

\* The head of a login attempt: const appId = generateAppId(), then
\* getPuzzleId(appId) sends its first request.
AttemptStart ==
  /\ pc \in {"attempt_start", "notify_attempt"}
  /\ appIdSeq' = appIdSeq + 1
  /\ appId' = generateAppId(appIdSeq)
  /\ gens' = 1
  /\ appIdOwner' = <<index, loginAttempt>>
  /\ attemptsMade' = attemptsMade + 1
  /\ attempt' = 1
  /\ tries' = 1
  /\ Send("puzzle_id", appId')
  /\ pc' = "fetch_puzzleId"
  /\ err' = "none"
  /\ token' = 0
  /\ points' = 0
  /\ pointsResp' = NoResp
  /\ IF pc = "notify_attempt" THEN sendMessageSettled ELSE UNCHANGED delivery
  /\ ops' = <<"identity", "puzzle_id">>
  /\ Handoff
  /\ UNCHANGED <<tgVars, notes, cfgVars, mainVars, logVars, loginAttempt, wait, result,
                 backoffs, lastDelay>>

\* faulty variant: the error of the last try is thrown past the catch block
\* of the orchestrator
SubFail_uncaught(e, sleepPc, delay) ==
  IF lastTry(attempt)
  THEN /\ pc' = "fatal"
       /\ err' = e
       /\ UNCHANGED <<wait, notes>>
  ELSE /\ pc' = sleepPc
       /\ wait' = SubWait(delay)
       /\ UNCHANGED <<err, notes>>

\* A failed try of a retry loop: throw to the orchestrator on the last try,
\* else sleep delay and go round the loop.
SubFail(e, sleepPc, delay) ==
  IF lastTry(attempt)
  THEN Raise(e)
  ELSE /\ pc' = sleepPc
       /\ wait' = SubWait(delay)
       /\ UNCHANGED <<err, notes>>

\* getPuzzleId: the response is ok; getPuzzleImage sends its first request
GetPuzzleIdOk ==
  /\ pc = "fetch_puzzleId"
  /\ attempt' = 1
  /\ tries' = 1
  /\ Send("puzzle_image", appId)
  /\ pc' = "fetch_puzzleImage"
  /\ Issue("puzzle_image")
  /\ Handoff
  /\ UNCHANGED <<delivery, tgVars, notes, pointsResp, attemptsMade, cfgVars, mainVars, logVars, idVars, loginAttempt, token,
                 points, err, wait, result, backoffs, lastDelay>>

\* faulty variant: when the last try failed the orchestrator gives the
\* account up and returns false
GetPuzzleIdFail_returns ==
  /\ pc = "fetch_puzzleId"
  /\ IF lastTry(attempt)
     THEN /\ pc' = "returned"
          /\ err' = "puzzle_id"
          /\ result' = FALSE
          /\ UNCHANGED <<wait, notes>>
     ELSE /\ pc' = "sleep_puzzleId"
          /\ wait' = SubWait(subRetryDelay(attempt))
          /\ UNCHANGED <<err, notes, result>>
  /\ Handoff
  /\ UNCHANGED <<ops, delivery, tgVars, pointsResp, attemptsMade, backoffs,
                 cfgVars, mainVars, logVars, proxyVars, idVars, loginAttempt,
                 attempt, token, points, tries, lastDelay, lastReq>>

\* getPuzzleId: the fetch threw or the status was not ok
GetPuzzleIdFail ==
  /\ pc = "fetch_puzzleId"
  /\ SubFail("puzzle_id", "sleep_puzzleId", subRetryDelay(attempt))
  /\ Handoff
  /\ UNCHANGED <<ops, delivery, tgVars, pointsResp, attemptsMade, backoffs, cfgVars, mainVars, logVars, proxyVars, idVars, loginAttempt,
                 attempt, token, points, result, tries, lastDelay, lastReq>>

\* getPuzzleId: the sleep is over, attempt++ and the next try is sent
GetPuzzleIdRetry ==
  /\ pc = "sleep_puzzleId"
  /\ attempt + 1 <= MAX_RETRIES
  /\ attempt' = attempt + 1
  /\ tries' = tries + 1
  /\ Send("puzzle_id", appId)
  /\ pc' = "fetch_puzzleId"
  /\ wait' = NoWait
  /\ Handoff
  /\ UNCHANGED <<ops, delivery, tgVars, notes, pointsResp, attemptsMade, cfgVars, mainVars, logVars, idVars, loginAttempt, token,
                 points, err, result, backoffs, lastDelay>>

\* getPuzzleImage: the response is ok; processCaptcha calls the solver
GetPuzzleImageOk ==
  /\ pc = "fetch_puzzleImage"
  /\ attempt' = 1
  /\ tries' = 1
  /\ pc' = "solve"
  /\ Issue("solve")
  /\ Handoff
  /\ UNCHANGED <<delivery, tgVars, notes, pointsResp, attemptsMade, cfgVars, mainVars, logVars, proxyVars, idVars, loginAttempt,
                 token, points, err, wait, result, backoffs, lastDelay,
                 lastReq>>

\* getPuzzleImage: the fetch threw or the status was not ok
GetPuzzleImageFail ==
  /\ pc = "fetch_puzzleImage"
  /\ SubFail("puzzle_image", "sleep_puzzleImage", subRetryDelay(attempt))
  /\ Handoff
  /\ UNCHANGED <<ops, delivery, tgVars, pointsResp, attemptsMade, backoffs, cfgVars, mainVars, logVars, proxyVars, idVars, loginAttempt,
                 attempt, token, points, result, tries, lastDelay, lastReq>>

\* getPuzzleImage: the sleep is over, attempt++ and the next try is sent
GetPuzzleImageRetry ==
  /\ pc = "sleep_puzzleImage"
  /\ attempt + 1 <= MAX_RETRIES
  /\ attempt' = attempt + 1
  /\ tries' = tries + 1
  /\ Send("puzzle_image", appId)
  /\ pc' = "fetch_puzzleImage"
  /\ wait' = NoWait
  /\ Handoff
  /\ UNCHANGED <<ops, delivery, tgVars, notes, pointsResp, attemptsMade, cfgVars, mainVars, logVars, idVars, loginAttempt, token,
                 points, err, result, backoffs, lastDelay>>

\* processCaptcha with the Telegram solver: temp_captcha.png is saved and
\* sendPhoto resolved; the timer is set and the once('message') listener
\* registered
TelegramPhotoSent ==
  /\ pc = "solve"
  /\ telegramBot
  /\ pc' = "solve_wait"
  /\ listeners' = listeners + 1
  /\ wait' = [kind |-> "captcha", num |-> CAPTCHA_TIMEOUT, den |-> 1]
  /\ Handoff
  /\ UNCHANGED <<ops, delivery, telegramChatId, firstChat, lastChat, notes, pointsResp, attemptsMade, cfgVars, mainVars, logVars,
                 proxyVars, idVars, loginAttempt, attempt, token, points, err,
                 result, tries, backoffs, lastDelay, lastReq>>

\* processCaptcha with the Telegram solver: a message arrives during the
\* wait.  Every pending once('message') listener runs; the one of this wait
\* clears the timer and resolves with msg.text, and the orchestrator posts
\* the login
TelegramReply ==
  /\ pc = "solve_wait"
  /\ \E chat \in Chats : onMessage(chat)
  /\ listeners' = 0
  /\ wait' = NoWait
  /\ attempt' = 1
  /\ tries' = 1
  /\ Send("login", appId)
  /\ pc' = "fetch_login"
  /\ Issue("submit")
  /\ Handoff
  /\ UNCHANGED <<delivery, notes, pointsResp, attemptsMade, cfgVars, mainVars, logVars, idVars, loginAttempt, token,
                 points, err, result, backoffs, lastDelay>>

\* faulty variant: the rejection of the timer is not caught by the
\* orchestrator and ends the run
ProcessCaptchaTimeout_fatal ==
  /\ pc = "solve_wait"
  /\ wait.kind = "captcha"
  /\ pc' = "fatal"
  /\ err' = "captcha_timeout"
  /\ wait' = NoWait
  /\ Handoff
  /\ UNCHANGED <<ops, delivery, tgVars, notes, pointsResp, attemptsMade, backoffs, cfgVars, mainVars, logVars, proxyVars, idVars, loginAttempt,
                 attempt, token, points, result, tries, lastDelay, lastReq>>

\* processCaptcha with the Telegram solver: CAPTCHA_TIMEOUT passed without a
\* message; the timer rejects with 'Captcha solving timeout', processCaptcha
\* rethrows, and the once('message') listener stays registered
ProcessCaptchaTimeout ==
  /\ pc = "solve_wait"
  /\ wait.kind = "captcha"
  /\ Raise("captcha_timeout")
  /\ Handoff
  /\ UNCHANGED <<ops, delivery, tgVars, pointsResp, attemptsMade, backoffs, cfgVars, mainVars, logVars, proxyVars, idVars, loginAttempt,
                 attempt, token, points, result, tries, lastDelay, lastReq>>

\* processCaptcha: the solver answered; the orchestrator posts the login
ProcessCaptchaOk ==
  /\ pc = "solve"
  /\ ~telegramBot
  /\ attempt' = 1
  /\ tries' = 1
  /\ Send("login", appId)
  /\ pc' = "fetch_login"
  /\ Issue("submit")
  /\ Handoff
  /\ UNCHANGED <<delivery, tgVars, notes, pointsResp, attemptsMade, cfgVars, mainVars, logVars, idVars, loginAttempt, token,
                 points, err, wait, result, backoffs, lastDelay>>

\* processCaptcha of the proxy variant: a retry loop with 2000 * attempt
ProcessCaptchaFail ==
  /\ pc = "solve"
  /\ policy = "bounded"
  /\ SubFail("captcha", "sleep_solve", captchaRetryDelay(attempt))
  /\ Handoff
  /\ UNCHANGED <<ops, delivery, tgVars, pointsResp, attemptsMade, backoffs, cfgVars, mainVars, logVars, proxyVars, idVars, loginAttempt,
                 attempt, token, points, result, tries, lastDelay, lastReq>>

\* processCaptcha of the proxy variant: the sleep is over, the solver is
\* called again
ProcessCaptchaRetry ==
  /\ pc = "sleep_solve"
  /\ attempt + 1 <= MAX_RETRIES
  /\ attempt' = attempt + 1
  /\ tries' = tries + 1
  /\ pc' = "solve"
  /\ wait' = NoWait
  /\ Handoff
  /\ UNCHANGED <<ops, delivery, tgVars, notes, pointsResp, attemptsMade, cfgVars, mainVars, logVars, proxyVars, idVars, loginAttempt,
                 token, points, err, result, backoffs, lastDelay, lastReq>>

\* faulty variant: the error of the solver is logged and the login is
\* submitted all the same
ProcessCaptchaThrow_submits ==
  /\ pc = "solve"
  /\ policy = "unbounded"
  /\ err' = "captcha"
  /\ attempt' = 1
  /\ tries' = 1
  /\ Send("login", appId)
  /\ pc' = "fetch_login"
  /\ Issue("submit")
  /\ Handoff
  /\ UNCHANGED <<delivery, tgVars, notes, pointsResp, attemptsMade, cfgVars,
                 mainVars, logVars, idVars, loginAttempt, token, points, wait,
                 result, backoffs, lastDelay>>

\* processCaptcha of the Telegram variant: one try block, no loop; any error
\* of any backend is rethrown at once
ProcessCaptchaThrow ==
  /\ pc = "solve"
  /\ policy = "unbounded"
  /\ Raise("captcha")
  /\ Handoff
  /\ UNCHANGED <<ops, delivery, tgVars, pointsResp, attemptsMade, backoffs, cfgVars, mainVars, logVars, proxyVars, idVars, loginAttempt,
                 attempt, token, points, result, tries, lastDelay, lastReq>>

\* The login response: HTTP status ok or not, message equal to
\* 'Successfully logged in!' or not, a data object or none.
LoginResponses == [ok : BOOLEAN, msgOk : BOOLEAN, hasData : BOOLEAN]

\* The success test of the orchestrator: loginResponse.ok in loginAccount,
\* loginResult.message === 'Successfully logged in!' in loginAccountWithRetry
loginSucceeded(resp) == IF policy = "bounded" THEN resp.ok ELSE resp.msgOk

\* loginResult.data.token: the session token the server issued for this
\* request, named by the identity the request carried
tokenOf(req) == req.appid

\* The login passed the success test; getUserPoints sends its first request.
LoginAccepted ==
  /\ pc = "fetch_login"
  /\ \E resp \in LoginResponses : loginSucceeded(resp) /\ resp.hasData
  /\ token' = tokenOf(lastReq)
  /\ attempt' = 1
  /\ tries' = 1
  /\ Send("points", appId)
  /\ pc' = "fetch_points"
  /\ Issue("points")
  /\ Handoff
  /\ UNCHANGED <<delivery, tgVars, notes, pointsResp, attemptsMade, cfgVars, mainVars, logVars, idVars, loginAttempt, points,
                 err, wait, result, backoffs, lastDelay>>

\* faulty variant: a rejected login is final: the account is given up
\* without a wait or another attempt
LoginRejected_final ==
  /\ pc = "fetch_login"
  /\ \E resp \in LoginResponses : ~loginSucceeded(resp)
  /\ err' = "rejected"
  /\ pc' = "append_failure"
  /\ Handoff
  /\ UNCHANGED <<ops, delivery, tgVars, notes, wait, pointsResp, attemptsMade,
                 backoffs, cfgVars, mainVars, logVars, proxyVars, idVars,
                 loginAttempt, attempt, token, points, result, tries,
                 lastDelay, lastReq>>

\* The login failed the success test: throw new Error(loginResult.message)
LoginRejected ==
  /\ pc = "fetch_login"
  /\ \E resp \in LoginResponses : ~loginSucceeded(resp)
  /\ Raise("rejected")
  /\ Handoff
  /\ UNCHANGED <<ops, delivery, tgVars, pointsResp, attemptsMade, backoffs, cfgVars, mainVars, logVars, proxyVars, idVars, loginAttempt,
                 attempt, token, points, result, tries, lastDelay, lastReq>>

\* faulty variant: a login submission that threw is sent again, like the tries of
\* the sub-request loops
LoginTransportError_resend ==
  /\ pc = "fetch_login"
  /\ IF lastTry(attempt)
     THEN /\ Raise("transport")
          /\ UNCHANGED <<attempt, tries, proxyVars, lastReq>>
     ELSE /\ attempt' = attempt + 1
          /\ tries' = tries + 1
          /\ Send("login", appId)
          /\ UNCHANGED <<pc, err, wait, notes>>
  /\ Handoff
  /\ UNCHANGED <<ops, delivery, tgVars, pointsResp, attemptsMade, backoffs, cfgVars, mainVars, logVars, idVars,
                 loginAttempt, token, points, result, lastDelay>>

\* fetch or loginResponse.json() threw, or the test passed on a body without
\* data (loginResult.data.token throws a TypeError)
LoginTransportError ==
  /\ pc = "fetch_login"
  /\ Raise("transport")
  /\ Handoff
  /\ UNCHANGED <<ops, delivery, tgVars, pointsResp, attemptsMade, backoffs, cfgVars, mainVars, logVars, proxyVars, idVars, loginAttempt,
                 attempt, token, points, result, tries, lastDelay, lastReq>>

\* After getUserPoints returned p: the orchestrator reports the success
\* (loginAccountWithRetry only) and appends the success line.
PointsReturn(p) ==
  /\ points' = p
  /\ sendTelegramStatus("success", "notify_success", "append_success")

\* obj?.member || 0: an absent object, an absent member and the falsy value 0
\* all give 0
OrZero(obj, member) ==
  IF obj = Absent THEN 0
  ELSE IF obj[1][member] = Absent THEN 0
  ELSE IF obj[1][member][1] = 0 THEN 0
  ELSE obj[1][member][1]

\* faulty variant: the Telegram bonus is left out of the sum
totalPoints_short(data) ==
  OrZero(data.referralPoint, "commission")
  + OrZero(data.rewardPoint, "points")
  + OrZero(data.rewardPoint, "registerpoints")
  + OrZero(data.rewardPoint, "twitter_x_id_points")
  + OrZero(data.rewardPoint, "discordid_points")

\* const totalPoints of getUserPoints
totalPoints(data) ==
  OrZero(data.referralPoint, "commission")
  + OrZero(data.rewardPoint, "points")
  + OrZero(data.rewardPoint, "registerpoints")
  + OrZero(data.rewardPoint, "twitter_x_id_points")
  + OrZero(data.rewardPoint, "discordid_points")
  + OrZero(data.rewardPoint, "telegramid_points")

\* The points response of the server the run talks to:
\* { rewardPoint: { points: SERVER_POINTS } }
ServerData ==
  {[referralPoint |-> Absent,
    rewardPoint |-> Present([points |-> Present(SERVER_POINTS),
                             registerpoints |-> Absent,
                             twitter_x_id_points |-> Absent,
                             discordid_points |-> Absent,
                             telegramid_points |-> Absent])]}

\* getUserPoints: data.success is true and data.data is one of bodies: the
\* total of the six members is returned
GetUserPointsData(bodies) ==
  /\ pc = "fetch_points"
  /\ \E data \in bodies :
       /\ pointsResp' = [kind |-> "success", data |-> data]
       /\ PointsReturn(totalPoints(data))
  /\ RecordIssued
  /\ Handoff
  /\ UNCHANGED <<delivery, tgVars, attemptsMade, cfgVars, mainVars, logVars, proxyVars, idVars, loginAttempt,
                 attempt, token, err, wait, result, tries, backoffs,
                 lastDelay, lastReq>>

\* getUserPoints: the server answered with data.success true
GetUserPointsOk == GetUserPointsData(ServerData)

\* getUserPoints: the response is ok but data.success is false: return 0
GetUserPointsNoSuccess ==
  /\ pc = "fetch_points"
  /\ pointsResp' = [kind |-> "unsuccess", data |-> NoData]
  /\ PointsReturn(0)
  /\ RecordIssued
  /\ Handoff
  /\ UNCHANGED <<delivery, tgVars, attemptsMade, cfgVars, mainVars, logVars, proxyVars, idVars, loginAttempt,
                 attempt, token, err, wait, result, tries, backoffs,
                 lastDelay, lastReq>>

\* faulty variant: the last failed try throws to the orchestrator as the
\* other retry loops do
GetUserPointsFail_throws ==
  /\ pc = "fetch_points"
  /\ pointsResp' = [kind |-> "error", data |-> NoData]
  /\ IF policy = "bounded" /\ ~lastTry(attempt)
     THEN /\ pc' = "sleep_points"
          /\ wait' = SubWait(subRetryDelay(attempt))
          /\ UNCHANGED <<points, err, notes>>
     ELSE /\ Raise("points")
          /\ UNCHANGED points
  /\ RecordIssued
  /\ Handoff
  /\ UNCHANGED <<delivery, tgVars, attemptsMade, cfgVars, mainVars, logVars, proxyVars, idVars, loginAttempt,
                 attempt, token, result, tries, backoffs, lastDelay,
                 lastReq>>

\* getUserPoints: the fetch threw, the status was not ok or the body could
\* not be read.  The proxy variant retries and returns 0 after the last try;
\* the Telegram variant returns 0 at once.
GetUserPointsFail ==
  /\ pc = "fetch_points"
  /\ pointsResp' = [kind |-> "error", data |-> NoData]
  /\ IF policy = "bounded" /\ ~lastTry(attempt)
     THEN /\ pc' = "sleep_points"
          /\ wait' = SubWait(subRetryDelay(attempt))
          /\ UNCHANGED <<points, notes>>
     ELSE /\ PointsReturn(0)
          /\ UNCHANGED wait
  /\ RecordIssued
  /\ Handoff
  /\ UNCHANGED <<delivery, tgVars, attemptsMade, cfgVars, mainVars, logVars, proxyVars, idVars, loginAttempt,
                 attempt, token, err, result, tries, backoffs, lastDelay,
                 lastReq>>

\* getUserPoints of the proxy variant: the sleep is over, the next try is sent
GetUserPointsRetry ==
  /\ pc = "sleep_points"
  /\ attempt + 1 <= MAX_RETRIES
  /\ attempt' = attempt + 1
  /\ tries' = tries + 1
  /\ Send("points", appId)
  /\ pc' = "fetch_points"
  /\ wait' = NoWait
  /\ Handoff
  /\ UNCHANGED <<ops, delivery, tgVars, notes, pointsResp, attemptsMade, cfgVars, mainVars, logVars, idVars, loginAttempt, token,
                 points, err, result, backoffs, lastDelay>>

\* faulty variant: the line is built from the first credential of file.txt
successLine_first(cred) ==
  IF policy = "bounded"
  THEN [email |-> credentials[1].email, password |-> cred.password,
        token |-> token, points |-> points]
  ELSE [email |-> credentials[1].email, token |-> token]

\* The line appended to successful_logins.txt: email:password:token:points
\* in loginAccount, email:token in loginAccountWithRetry
successLine(cred) ==
  IF policy = "bounded"
  THEN [email |-> cred.email, password |-> cred.password, token |-> token,
        points |-> points]
  ELSE [email |-> cred.email, token |-> token]

\* The line appended to failed_logins.txt: email:password
failureLine(cred) == [email |-> cred.email, password |-> cred.password]

\* faulty variant: the success line is appended but return true is missing, so the
\* for / while loop goes on with the next login attempt
AppendSuccessOk_noReturn ==
  /\ pc = "append_success"
  /\ successLog' = Append(successLog, successLine(credentials[index + 1]))
  /\ IF policy = "bounded" /\ loginAttempt = LOGIN_RETRIES
     THEN /\ result' = FALSE
          /\ pc' = "returned"
          /\ UNCHANGED loginAttempt
     ELSE /\ loginAttempt + 1 <= MaxAttempts
          /\ loginAttempt' = loginAttempt + 1
          /\ pc' = "attempt_start"
          /\ UNCHANGED result
  /\ Handoff
  /\ UNCHANGED <<ops, delivery, tgVars, notes, pointsResp, attemptsMade, cfgVars, mainVars, failLog, proxyVars, idVars,
                 attempt, token, points, err, wait, tries, backoffs,
                 lastDelay, lastReq>>

\* fs.appendFile('successful_logins.txt', ...) resolved: return true
AppendSuccessOk ==
  /\ pc = "append_success"
  /\ successLog' = Append(successLog, successLine(credentials[index + 1]))
  /\ result' = TRUE
  /\ pc' = "returned"
  /\ Handoff
  /\ UNCHANGED <<ops, delivery, tgVars, notes, pointsResp, attemptsMade, cfgVars, mainVars, failLog, proxyVars, idVars, loginAttempt,
                 attempt, token, points, err, wait, tries, backoffs,
                 lastDelay, lastReq>>

\* fs.appendFile('successful_logins.txt', ...) rejected: the call is inside
\* the try block, so the orchestrator's catch takes the error
AppendSuccessFail ==
  /\ pc = "append_success"
  /\ Raise("append_success")
  /\ Handoff
  /\ UNCHANGED <<ops, delivery, tgVars, pointsResp, attemptsMade, backoffs, cfgVars, mainVars, logVars, proxyVars, idVars, loginAttempt,
                 attempt, token, points, result, tries, lastDelay, lastReq>>

\* fs.appendFile('failed_logins.txt', ...) resolved: return false
AppendFailureOk ==
  /\ pc = "append_failure"
  /\ failLog' = Append(failLog, failureLine(credentials[index + 1]))
  /\ result' = FALSE
  /\ pc' = "returned"
  /\ Handoff
  /\ UNCHANGED <<ops, delivery, tgVars, notes, pointsResp, attemptsMade, cfgVars, mainVars, successLog, proxyVars, idVars,
                 loginAttempt, attempt, token, points, err, wait, tries,
                 backoffs, lastDelay, lastReq>>

\* faulty variant: main swallows the error of the orchestrator and goes on
\* with the next credential
AppendFailureFail_skip ==
  /\ pc = "append_failure"
  /\ pc' = "main_loop"
  /\ err' = "append_failure"
  /\ index' = index + 1
  /\ failed' = failed + 1
  /\ Handoff
  /\ UNCHANGED <<ops, delivery, tgVars, notes, pointsResp, attemptsMade, cfgVars, successful, countsEmitted, logVars, proxyVars, idVars, loginAttempt,
                 attempt, token, points, wait, result, tries, backoffs,
                 lastDelay, lastReq>>

\* fs.appendFile('failed_logins.txt', ...) rejected inside the catch block:
\* the error leaves loginAccount and the loop of main, and main().catch
\* prints it; the counts are not printed
AppendFailureFail ==
  /\ pc = "append_failure"
  /\ pc' = "fatal"
  /\ err' = "append_failure"
  /\ Handoff
  /\ UNCHANGED <<ops, delivery, tgVars, notes, pointsResp, attemptsMade, cfgVars, mainVars, logVars, proxyVars, idVars, loginAttempt,
                 attempt, token, points, wait, result, tries, backoffs,
                 lastDelay, lastReq>>

\* The backoff of the orchestrator is over: the next login attempt begins.
\* loginAccount: loginAttempt++ of the for loop; loginAccountWithRetry:
\* loginAttempt++ at the end of the catch block, with no upper limit.
LoginBackoffDone ==
  /\ pc = "sleep_login"
  /\ IF policy = "bounded"
     THEN loginAttempt + 1 <= LOGIN_RETRIES
     ELSE loginAttempt + 1 <= MaxAttempts
  /\ loginAttempt' = loginAttempt + 1
  /\ lastDelay' = [num |-> wait.num, den |-> wait.den]
  /\ backoffs' = IF wait.kind = "login" /\ wait.num > 0
                 THEN backoffs + 1 ELSE backoffs
  /\ wait' = NoWait
  /\ IF SinkOpen
     THEN /\ pc' = "notify_attempt"
          /\ notes' = <<"attempt">>
     ELSE /\ pc' = "attempt_start"
          /\ notes' = <<>>
  /\ Handoff
  /\ UNCHANGED <<ops, delivery, tgVars, pointsResp, attemptsMade, cfgVars, mainVars, logVars, proxyVars, idVars,
                 attempt, token, points, err, result, tries, lastReq>>

Next ==
  \/ MainNoCredentials
  \/ MainBegin
  \/ MainCallLogin
  \/ MainFinish
  \/ MainTakeResult
  \/ MainPauseDone
  \/ AttemptStart
  \/ GetPuzzleIdOk
  \/ GetPuzzleIdFail
  \/ GetPuzzleIdRetry
  \/ GetPuzzleImageOk
  \/ GetPuzzleImageFail
  \/ GetPuzzleImageRetry
  \/ ProcessCaptchaOk
  \/ ProcessCaptchaFail
  \/ ProcessCaptchaRetry
  \/ ProcessCaptchaThrow
  \/ LoginAccepted
  \/ LoginRejected
  \/ LoginTransportError
  \/ GetUserPointsOk
  \/ GetUserPointsNoSuccess
  \/ GetUserPointsFail
  \/ GetUserPointsRetry
  \/ AppendSuccessOk
  \/ AppendSuccessFail
  \/ AppendFailureOk
  \/ AppendFailureFail
  \/ LoginBackoffDone
  \/ NotifyStartingDone
  \/ NotifyProcessingDone
  \/ NotifyCompletedDone
  \/ NotifySuccessDone
  \/ NotifyFailedDone
  \/ NotifyWaitingDone
  \/ TelegramMessage
  \/ MainChatIdSet
  \/ TelegramPhotoSent
  \/ TelegramReply
  \/ ProcessCaptchaTimeout

Spec == Init /\ [][Next]_vars

\* ===================================================================
\* Claims
\* ===================================================================
\* the credential the orchestrator is working on
Current == credentials[index + 1]

\* number of lines of a log that name email e
Count(log, e) == Cardinality({i \in 1..Len(log) : log[i].email = e})

\* the orchestrator is inside a login attempt (between its head and its end)
InAttempt ==
  pc \in {"fetch_puzzleId", "sleep_puzzleId", "fetch_puzzleImage",
          "sleep_puzzleImage", "solve", "sleep_solve", "fetch_login",
          "solve_wait", "fetch_points", "sleep_points", "notify_success",
          "append_success"}

\* C1: when the orchestrator returns, exactly one terminal record has been
\* appended for the account, over successful_logins.txt and
\* failed_logins.txt together, whatever retries happened; and the logs hold
\* one line per account handed to it so far.
C1_ExactlyOneRecord ==
  pc = "returned" =>
    /\ Count(successLog, Current.email) + Count(failLog, Current.email) = 1
    /\ Len(successLog) + Len(failLog) = index + 1

\* C1 witness: the orchestrator returns for the second account after two
\* failed attempts and a third one that succeeded.
C1_Witness ==
  /\ pc = "returned"
  /\ index = 1
  /\ attemptsMade = 3
  /\ result

\* C2: under the bounded policy never more than 3 login attempts are made
\* for an account, the failure line is written only after the 3rd attempt
\* failed, and when the orchestrator returns with its last attempt failed
\* then exactly 3 attempts were made, one FAILURE and no SUCCESS record
\* were written for the account and the result is false.
C2_BoundedExhaustion ==
  policy = "bounded" =>
    /\ attemptsMade <= 3
    /\ pc = "append_failure" =>
         /\ attemptsMade = 3
         /\ Count(failLog, Current.email) = 0
    /\ (pc = "returned" /\ err # "none") =>
         /\ attemptsMade = 3
         /\ Count(failLog, Current.email) = 1
         /\ Count(successLog, Current.email) = 0
         /\ result = FALSE

\* C2 witness: loginAccount returned false after its third attempt failed.
C2_Witness ==
  /\ policy = "bounded"
  /\ pc = "returned"
  /\ err = "rejected"
  /\ attemptsMade = 3
  /\ ~result

\* C3: under the unbounded policy no FAILURE record is ever written, the
\* orchestrator never returns false, and it returns only after the login
\* of its last attempt passed the success test and its line was appended.
C3_UnboundedNeverFails ==
  policy = "unbounded" =>
    /\ failLog = <<>>
    /\ failed = 0
    /\ pc # "append_failure"
    /\ pc = "returned" =>
         /\ result = TRUE
         /\ err = "none"
         /\ token = appId
         /\ Count(successLog, Current.email) = 1

\* C3 witness: loginAccountWithRetry returns after two failed attempts.
C3_Witness ==
  /\ policy = "unbounded"
  /\ pc = "returned"
  /\ attemptsMade = 3
  /\ backoffs = 2

\* C4: under the unbounded policy one backoff wait is made after each failed
\* attempt and none after the successful one: inside attempt N there have
\* been N-1 waits and no record yet, and at the return after attempt N
\* there are exactly N attempts, N-1 waits and one SUCCESS record.
C4_UnboundedEventualSuccess ==
  (policy = "unbounded" /\ index < Len(credentials)) =>
    /\ InAttempt =>
         /\ backoffs = attemptsMade - 1
         /\ attemptsMade = loginAttempt
         /\ Count(successLog, Current.email) = 0
    /\ pc = "sleep_login" => wait.kind = "login" /\ wait.num > 0
    /\ pc = "returned" =>
         /\ attemptsMade = loginAttempt
         /\ backoffs = attemptsMade - 1
         /\ wait.kind = "none"
         /\ Count(successLog, Current.email) = 1

\* C4 witness: the second attempt of the second account succeeded after one
\* wait.
C4_Witness ==
  /\ policy = "unbounded"
  /\ pc = "returned"
  /\ index = 1
  /\ attemptsMade = 2
  /\ backoffs = 1

\* C5 (as stated): under the unbounded policy with initialDelay = 5000 ms the
\* delay waited before login attempt k is 5000 * 1.5^(k-1), for every
\* attempt k that is preceded by a wait.
C5_Original ==
  (policy = "unbounded" /\ lastDelay # NoDelay) =>
    lastDelay.num * Pow(2, loginAttempt - 1)
      = 5000 * Pow(3, loginAttempt - 1) * lastDelay.den

\* C5 (amended): under the unbounded policy the wait begun after failed
\* attempt j is 5000 * 1.5^(j-1), so the delay waited before login attempt
\* k >= 2 is 5000 * 1.5^(k-2): 5000 ms before attempt 2, 7500 ms before
\* attempt 3.
C5_DelayBeforeAttempt ==
  policy = "unbounded" =>
    /\ pc = "sleep_login" =>
         wait.num * Pow(2, loginAttempt - 1)
           = 5000 * Pow(3, loginAttempt - 1) * wait.den
    /\ lastDelay # NoDelay =>
         /\ loginAttempt >= 2
         /\ lastDelay.num * Pow(2, loginAttempt - 2)
              = 5000 * Pow(3, loginAttempt - 2) * lastDelay.den
    /\ (InAttempt /\ loginAttempt >= 2) => lastDelay # NoDelay

\* C5 witness: attempt 3 is under way and 7500 ms were waited before it.
C5_Witness ==
  /\ policy = "unbounded"
  /\ pc = "fetch_login"
  /\ loginAttempt = 3
  /\ lastDelay.num = 7500 * lastDelay.den

\* C6: every login attempt generates its identity exactly once before its
\* first request, and every request of the attempt carries that identity:
\* the latest one generated, generated by this attempt of this account.
C6_FreshIdentity ==
  lastReq.op # "none" =>
    /\ lastReq.appid = appId
    /\ appId = appIdSeq
    /\ gens = 1
    /\ InAttempt => appIdOwner = <<index, loginAttempt>>

\* C6 witness: the points query of the second attempt of the second account
\* carries an identity generated after at least two others.
C6_Witness ==
  /\ pc = "fetch_points"
  /\ lastReq.op = "points"
  /\ index = 1
  /\ loginAttempt = 2
  /\ lastReq.appid >= 3

\* C7: with proxying enabled and a pool of size K > 0 the i-th call of the
\* rotator (from 0, over the whole run) returns pool[i mod K] and leaves
\* the cursor at (i + 1) mod K; with proxying disabled or K = 0 every call
\* returns none and the cursor stays where it was.
C7_RoundRobin ==
  IF useProxies /\ Len(proxyList) > 0
  THEN /\ currentProxyIndex = proxyCalls % Len(proxyList)
       /\ proxyCalls > 0 =>
            lastProxy = proxyList[((proxyCalls - 1) % Len(proxyList)) + 1]
  ELSE /\ lastProxy = NoProxy
       /\ currentProxyIndex = 0

\* C7 witness: the 7th call on a pool of 3 has wrapped twice and returned
\* pool[0].
C7_Witness ==
  /\ useProxies
  /\ Len(proxyList) = 3
  /\ proxyCalls = 7
  /\ lastProxy = proxyList[1]
  /\ currentProxyIndex = 1

PuzzlePcs ==
  {"fetch_puzzleId", "sleep_puzzleId", "fetch_puzzleImage", "sleep_puzzleImage"}

C8_State ==
  /\ pc \in PuzzlePcs => tries \in 1..3
  /\ pc \in {"sleep_puzzleId", "sleep_puzzleImage"} =>
       /\ tries < 3
       /\ wait = [kind |-> "sub", num |-> 1000 * tries, den |-> 1]
  /\ pc \in {"fetch_puzzleId", "fetch_puzzleImage"} => wait.kind = "none"
  /\ err \in {"puzzle_id", "puzzle_image"} =>
       /\ tries = 3
       /\ wait.kind # "sub"
       /\ ~InAttempt

\* where the orchestrator's catch takes the script
CatchPcs == {"sleep_login", "append_failure", "notify_failed"}

\* the script itself takes the step (not a Telegram message arriving)
ScriptStep == pc' # pc

C8_Step ==
  /\ (pc = "fetch_puzzleId" /\ ScriptStep) =>
       pc' \in {"fetch_puzzleImage", "sleep_puzzleId"} \cup CatchPcs
  /\ (pc = "fetch_puzzleId" /\ pc' = "fetch_puzzleImage") =>
       tries' = 1 /\ lastReq'.op = "puzzle_image"
  /\ (pc = "fetch_puzzleId" /\ pc' \in CatchPcs) =>
       tries = 3 /\ tries' = 3 /\ err' = "puzzle_id"
  /\ (pc = "sleep_puzzleId" /\ ScriptStep) =>
       pc' = "fetch_puzzleId" /\ tries' = tries + 1 /\ lastReq'.op = "puzzle_id"
  /\ (pc = "fetch_puzzleImage" /\ ScriptStep) =>
       pc' \in {"solve", "sleep_puzzleImage"} \cup CatchPcs
  /\ (pc = "fetch_puzzleImage" /\ pc' = "solve") => lastReq' = lastReq
  /\ (pc = "fetch_puzzleImage" /\ pc' \in CatchPcs) =>
       tries = 3 /\ tries' = 3 /\ err' = "puzzle_image"
  /\ (pc = "sleep_puzzleImage" /\ ScriptStep) =>
       pc' = "fetch_puzzleImage" /\ tries' = tries + 1
         /\ lastReq'.op = "puzzle_image"

\* C8: a call of fetchPuzzleId or fetchPuzzleImage makes at most 3 tries;
\* after failed try n < 3 it sleeps 1000 ms * n and sends the next try; a
\* try that does not fail leaves the call at once (the next request is the
\* first one of the next operation); after a failed 3rd try there is no
\* sleep and the error reaches the orchestrator's catch, ending the login
\* attempt.
C8_PuzzleRetry == []C8_State /\ [][C8_Step]_vars

\* C8 witness: the image fetch failed its 3rd try and the orchestrator is in
\* its backoff with that error.
C8_Witness ==
  /\ err = "puzzle_image"
  /\ pc = "sleep_login"
  /\ tries = 3
  /\ lastReq.op = "puzzle_image"

\* C9 (as stated): a failed login submission is re-sent, 3 times in total,
\* before its failure ends the login attempt.
C9_Original ==
  err \in {"rejected", "transport"} => tries = 3

\* C9 (amended): the login submission is sent exactly once per login attempt
\* and its failure ends the attempt at once, with no sub-request sleep; the
\* points query is tried up to 3 times with 1000 ms * n between tries in
\* the bounded variant and once in the unbounded variant.
C9_SubmitOnce ==
  /\ pc = "fetch_login" => tries = 1 /\ lastReq.op = "login"
  /\ err \in {"rejected", "transport"} =>
       /\ tries = 1
       /\ lastReq.op = "login"
       /\ wait.kind # "sub"
       /\ ~InAttempt
  /\ pc \in {"fetch_points", "sleep_points"} =>
       /\ tries \in 1..3
       /\ lastReq.op = "points"
       /\ policy = "unbounded" => tries = 1
  /\ pc = "sleep_points" =>
       /\ policy = "bounded"
       /\ tries < 3
       /\ wait = [kind |-> "sub", num |-> 1000 * tries, den |-> 1]

\* C9 witness: a rejected login ended the attempt after its single
\* submission.
C9_Witness ==
  /\ err = "rejected"
  /\ pc = "sleep_login"
  /\ tries = 1
  /\ lastReq.op = "login"

\* C10 (as stated): the captcha solving call waits 2000 ms * n after failed
\* try n < 3 and tries again, so its error ends the login attempt only
\* after a failed 3rd try.
C10_Original ==
  err = "captcha" => tries = 3

\* C10 (amended): the captcha solving call is tried at most 3 times per login
\* attempt; in the bounded variant it sleeps 2000 ms * n after failed try
\* n < 3 and its error ends the attempt after the failed 3rd try without a
\* further sleep; in the unbounded variant it is tried once and its error
\* ends the attempt at once.
C10_CaptchaRetry ==
  /\ pc \in {"solve", "sleep_solve"} => tries \in 1..3
  /\ pc = "sleep_solve" =>
       /\ policy = "bounded"
       /\ tries < 3
       /\ wait = [kind |-> "sub", num |-> 2000 * tries, den |-> 1]
  /\ err = "captcha" =>
       /\ tries = (IF policy = "bounded" THEN 3 ELSE 1)
       /\ wait.kind # "sub"
       /\ ~InAttempt

\* C10 witness: the solver of the bounded variant failed twice and the loop
\* sleeps 4000 ms before its 3rd try.
C10_Witness ==
  /\ policy = "bounded"
  /\ pc = "sleep_solve"
  /\ tries = 2
  /\ wait.num = 4000

\* getUserPoints has returned to the orchestrator after a failed query
PointsQueryFailed ==
  /\ pointsResp.kind \in {"unsuccess", "error"}
  /\ pc \notin {"fetch_points", "sleep_points"}

\* C11: a points query that fails (status not ok, network error, success
\* flag false, every retry used up) never fails the login: getUserPoints
\* returns 0 and throws nothing, the orchestrator goes on to write the
\* success record with 0 points, and once appendFile has written it the
\* orchestrator returns true from the very attempt whose points query
\* failed.  The one error such an attempt can still meet is a rejected
\* appendFile of a result record.
C11_PointsNeverFailLogin ==
  /\ pc \in {"fetch_points", "sleep_points"} => err = "none"
  /\ pointsResp.kind \in {"unsuccess", "error"} =>
       err \in {"none", "append_success", "append_failure"}
  /\ PointsQueryFailed /\ InAttempt =>
       /\ pc \in {"notify_success", "append_success"}
       /\ points = 0
       /\ err = "none"
  /\ PointsQueryFailed /\ pc = "returned" /\ err = "none" =>
       /\ result = TRUE
       /\ points = 0
       /\ appIdOwner = <<index, loginAttempt>>
       /\ attemptsMade = loginAttempt
       /\ successLog # <<>>
       /\ successLog[Len(successLog)].email = Current.email
       /\ policy = "bounded" => successLog[Len(successLog)].points = 0

\* C11 witness: the three tries of the points query of the bounded variant
\* all failed and the orchestrator returned true with a 0-point record.
C11_Witness ==
  /\ policy = "bounded"
  /\ pc = "returned"
  /\ pointsResp.kind = "error"
  /\ tries = MAX_RETRIES
  /\ result = TRUE
  /\ successLog[Len(successLog)].points = 0

\* ------------------------------------------------ the points total alone
\* The first points query of a run of the proxy variant over one account,
\* answered by any body of PointsData.
PointsInit ==
  /\ policy = "bounded"
  /\ model = "2captcha"
  /\ useProxies = FALSE
  /\ proxyList = <<>>
  /\ currentProxyIndex = 0
  /\ fileReadable = TRUE
  /\ credentials = <<Cred(1)>>
  /\ index = 0
  /\ successful = 0
  /\ failed = 0
  /\ countsEmitted = FALSE
  /\ pc = "fetch_points"
  /\ loginAttempt = 1
  /\ attempt = 1
  /\ appId = generateAppId(0)
  /\ token = tokenOf([appid |-> generateAppId(0)])
  /\ points = 0
  /\ err = "none"
  /\ wait = NoWait
  /\ result = FALSE
  /\ successLog = <<>>
  /\ failLog = <<>>
  /\ appIdSeq = 1
  /\ gens = 1
  /\ appIdOwner = <<0, 1>>
  /\ attemptsMade = 1
  /\ tries = 1
  /\ backoffs = 0
  /\ lastDelay = NoDelay
  /\ proxyCalls = 4
  /\ lastProxy = NoProxy
  /\ lastReq = [op |-> "points", appid |-> generateAppId(0), proxy |-> NoProxy]
  /\ pointsResp = NoResp
  /\ telegramChatId = NoChat
  /\ firstChat = NoChat
  /\ lastChat = NoChat
  /\ listeners = 0
  /\ notes = <<>>
  /\ delivery = "none"
  /\ ops = <<>>
  /\ inflight = [net |-> 1, write |-> 0]

GetUserPointsAny == GetUserPointsData(PointsData)

PointsNext == GetUserPointsAny

SpecPoints == PointsInit /\ [][PointsNext]_vars

\* the values of the members present in a body, in any order
RECURSIVE SumSeq(_)
SumSeq(q) == IF q = <<>> THEN 0 ELSE Head(q) + SumSeq(Tail(q))

\* the member of an optional object, absent when the object is
MemberOf(obj, name) == IF obj = Absent THEN Absent ELSE obj[1][name]

PresentValues(data) ==
  MemberOf(data.referralPoint, "commission")
  \o MemberOf(data.rewardPoint, "points")
  \o MemberOf(data.rewardPoint, "registerpoints")
  \o MemberOf(data.rewardPoint, "twitter_x_id_points")
  \o MemberOf(data.rewardPoint, "discordid_points")
  \o MemberOf(data.rewardPoint, "telegramid_points")

\* C12: for every subset of the six optional numeric members (referral
\* commission, reward points, registration bonus, the three social-link
\* bonuses) present in a successful points response, getUserPoints returns
\* exactly the sum of the values present; an absent member and an absent
\* parent object count as zero.
C12_PointsSum ==
  pointsResp.kind = "success" /\ pc # "fetch_points" /\ pc # "sleep_points" =>
    points = SumSeq(PresentValues(pointsResp.data))

\* C12 witness: a body without referralPoint whose rewardPoint lacks the
\* registration bonus and carries two non-zero members was totalled.
C12_Witness ==
  /\ pointsResp.kind = "success"
  /\ pc = "append_success"
  /\ pointsResp.data.referralPoint = Absent
  /\ pointsResp.data.rewardPoint # Absent
  /\ pointsResp.data.rewardPoint[1].registerpoints = Absent
  /\ pointsResp.data.rewardPoint[1].points = Present(1)
  /\ pointsResp.data.rewardPoint[1].telegramid_points = Present(1)
  /\ points = 2

\* number of result records written for line i of file.txt
RecordsOf(i) ==
  Count(successLog, Cred(i).email) + Count(failLog, Cred(i).email)

\* the lines of a log name the accounts in the order of file.txt
InInputOrder(log) ==
  \A i, j \in 1..Len(log) : i < j => log[i].email < log[j].email

\* C13: main never starts the first operation of the next account
\* (generateAppId or a request) before the result record of the account in
\* hand has been written, and it takes the accounts in the order of
\* file.txt: while an attempt for account index + 1 runs, every earlier
\* account has its one record, no later account has a record or an
\* identity, and the identity and the last request are those of the account
\* in hand.
C13_SequentialIsolation ==
  /\ index <= Len(credentials)
  /\ \A i \in 1..Len(credentials) :
       /\ i <= index => RecordsOf(i) = 1
       /\ i > index + 1 => RecordsOf(i) = 0
  /\ appIdSeq > 0 => appIdOwner[1] <= index
  /\ InAttempt =>
       /\ index < Len(credentials)
       /\ appIdOwner[1] = index
       /\ lastReq.appid = appId
       /\ Len(successLog) + Len(failLog) = index
  /\ InInputOrder(successLog)
  /\ InInputOrder(failLog)

\* C13 witness: the first request for the second account is in flight and the
\* first account has its record.
C13_Witness ==
  /\ index = 1
  /\ pc = "fetch_puzzleId"
  /\ attemptsMade = 1
  /\ lastReq.op = "puzzle_id"
  /\ RecordsOf(1) = 1

\* C14: main goes on to the next account after a success and after a
\* failure alike, hands every account to the orchestrator once, and when the
\* run completes successful is the number of lines of
\* successful_logins.txt, failed the number of lines of failed_logins.txt,
\* and their sum the number of accounts.
C14_CountsMatchRecords ==
  /\ pc \in {"main_loop", "done"} =>
       /\ successful = Len(successLog)
       /\ failed = Len(failLog)
       /\ successful + failed = index
  /\ pc = "attempt_start" /\ attemptsMade = 0 => RecordsOf(index + 1) = 0
  /\ pc = "done" =>
       /\ countsEmitted
       /\ index = Len(credentials)
       /\ successful + failed = Len(credentials)
       /\ \A i \in 1..Len(credentials) : RecordsOf(i) = 1

\* C14 witness: the run completed after the first account failed and the
\* second succeeded.
C14_Witness ==
  /\ pc = "done"
  /\ Len(credentials) = 2
  /\ failed = 1
  /\ successful = 1
  /\ failLog[1].email = Cred(1).email
  /\ successLog[1].email = Cred(2).email

\* C15 (as stated): the 2-second pause is made after each account except
\* the last: after the last account's outcome no pause precedes the final
\* counts.
C15_PauseExceptLast ==
  pc = "sleep_pause" =>
    /\ wait = [kind |-> "pause", num |-> 2000, den |-> 1]
    /\ index < Len(credentials) - 1

\* C16 (as stated): once the loop of main has started, the final counts are
\* printed on every path out of the run, also when the orchestrator throws
\* in the middle of the batch.
C16_CountsOnEveryExit ==
  pc \in {"done", "fatal"} => countsEmitted

C17_State ==
  /\ pc = "solve_wait" =>
       /\ telegramBot
       /\ wait = [kind |-> "captcha", num |-> 120000, den |-> 1]
       /\ ENABLED ProcessCaptchaTimeout
  /\ err = "captcha_timeout" =>
       /\ pc \in {"notify_failed", "notify_waiting", "sleep_login",
                  "notify_attempt", "attempt_start"}
       /\ Count(failLog, Current.email) = 0
       /\ ~countsEmitted
  /\ err = "captcha_timeout" /\ pc = "sleep_login" =>
       wait = LoginWait(calculateRetryDelay(loginAttempt))

C17_Step ==
  /\ (pc = "solve_wait" /\ ScriptStep) =>
       /\ pc' \in {"fetch_login"} \cup CatchPcs
       /\ index' = index
       /\ loginAttempt' = loginAttempt
  /\ (pc = "solve_wait" /\ pc' \in CatchPcs) => err' = "captcha_timeout"
  /\ (err = "captcha_timeout" /\ ScriptStep) =>
       /\ index' = index
       /\ pc' \in {"notify_waiting", "sleep_login", "notify_attempt",
                   "attempt_start", "fetch_puzzleId"}
  /\ (err = "captcha_timeout" /\ pc = "sleep_login" /\ ScriptStep) =>
       /\ pc' \in {"notify_attempt", "attempt_start"}
       /\ loginAttempt' = loginAttempt + 1
       /\ lastDelay'.num > 0

\* C17: with the Telegram solver, a wait for the operator's reply that
\* gets no message has a 120000 ms timer pending that makes processCaptcha
\* fail with the timeout error instead of waiting on; the orchestrator
\* takes that error as any failed attempt: it waits the backoff of the
\* attempt and starts the next attempt of the same account, and neither the
\* account nor the run is given up.
C17_RelayTimeout == []C17_State /\ [][C17_Step]_vars

\* C17 witness: the second attempt of an account runs after the wait of the
\* first one timed out (only a timed-out wait leaves its listener behind).
C17_Witness ==
  /\ telegramBot
  /\ loginAttempt = 2
  /\ pc = "fetch_puzzleId"
  /\ listeners = 1
  /\ lastDelay = [num |-> 5000, den |-> 1]

\* C18 (as stated): a wait for the operator's reply that ends by timeout
\* removes its reply listener: no once('message') listener is pending while
\* processCaptcha is not waiting, and at most one while it is.
C18_NoListenerLeak ==
  /\ pc = "solve_wait" => listeners <= 1
  /\ pc # "solve_wait" => listeners = 0

\* C19: telegramChatId is set once per run, from the first message the bot
\* receives, and nothing changes or clears it afterwards; main goes on to
\* the accounts only with it set.
C19_BindOnce ==
  /\ telegramChatId = firstChat
  /\ ~telegramBot => telegramChatId = NoChat
  /\ telegramBot /\ pc # "wait_chat_id" => telegramChatId # NoChat

\* C19 witness: the chat is bound to the first sender and a later message
\* came from another chat while an account was being processed.
C19_Witness ==
  /\ telegramChatId = 1
  /\ lastChat = 2
  /\ InAttempt

\* the status messages an attempt has sent when the script is at pc: the
\* attempt message, the success message once the login and the points
\* query are through, the failure message and then the wait message once
\* the catch is entered
AttemptNotes ==
  /\ (InAttempt \/ pc = "notify_attempt") =>
       notes = (IF pc \in {"notify_success", "append_success"}
                THEN <<"attempt", "success">> ELSE <<"attempt">>)
  /\ pc = "returned" => notes = <<"attempt", "success">>
  /\ pc = "notify_failed" =>
       notes \in {<<"attempt", "failed">>, <<"attempt", "success", "failed">>}
  /\ pc \in {"notify_waiting", "sleep_login"} =>
       notes \in {<<"attempt", "failed", "waiting">>,
                  <<"attempt", "success", "failed", "waiting">>}

\* C20 (as stated): under the unbounded policy every attempt sends one
\* attempt message, every failed attempt one failure message and then one
\* wait message before the wait begins, and the successful attempt one
\* success message, whatever solver is configured.
C20_Original ==
  policy = "unbounded" => AttemptNotes

\* C20 (amended): under the unbounded policy with the Telegram solver every
\* attempt sends one attempt message, every failed attempt one failure
\* message and then one wait message before the wait begins, and the
\* successful attempt one success message; with any other solver no status
\* message is sent at all.
C20_Notifications ==
  /\ telegramBot /\ pc # "wait_chat_id" => AttemptNotes
  /\ ~telegramBot => notes = <<>>

\* C20 witness: the first attempt failed and sent its three messages, and
\* the wait has begun.
C20_Witness ==
  /\ telegramBot
  /\ pc = "sleep_login"
  /\ loginAttempt = 1
  /\ notes = <<"attempt", "failed", "waiting">>
  /\ wait.num = 5000

\* the awaits of sendTelegramStatus
NotifyPcs ==
  {"notify_starting", "notify_processing", "notify_attempt", "notify_success",
   "notify_failed", "notify_waiting", "notify_completed"}

\* where the script goes on after the status message awaited at p
AfterNotify(p) ==
  CASE p = "notify_starting" -> "main_loop"
    [] p = "notify_processing" -> "notify_attempt"
    [] p = "notify_attempt" -> "fetch_puzzleId"
    [] p = "notify_success" -> "append_success"
    [] p = "notify_failed" -> "notify_waiting"
    [] p = "notify_waiting" -> "sleep_login"
    [] p = "notify_completed" -> "done"

C21_Step ==
  \A d \in {"sent", "failed"} :
    (pc \in NotifyPcs /\ ScriptStep /\ delivery' = d) =>
      /\ pc' = AfterNotify(pc)
      /\ wait' = (IF pc = "notify_waiting"
                  THEN LoginWait(calculateRetryDelay(loginAttempt))
                  ELSE wait)
      /\ err' = (IF pc = "notify_attempt" THEN "none" ELSE err)
      /\ attemptsMade' = (IF pc = "notify_attempt"
                          THEN attemptsMade + 1 ELSE attemptsMade)
      /\ UNCHANGED <<index, loginAttempt, backoffs, lastDelay, successLog,
                     failLog, successful, failed, countsEmitted, result,
                     tgVars>>

\* C21: a status message that could not be delivered changes nothing in the
\* orchestration: whether sendMessage resolved or rejected, the script goes
\* on from the await of sendTelegramStatus to the same next step, with the
\* same attempt number, wait, error, records and counts.
C21_SinkFailureIgnored == [][C21_Step]_vars

\* C21 witness: the 'Login Successful' message of an account was not
\* delivered, and its success line is written and the call returned true.
C21_Witness ==
  /\ delivery = "failed"
  /\ pc = "returned"
  /\ result = TRUE
  /\ Count(successLog, Current.email) = 1

\* the operations of a login attempt in the order the orchestrator calls
\* them
OpOrder ==
  <<"identity", "puzzle_id", "puzzle_image", "solve", "submit", "points",
    "record">>

\* the first n operations of an attempt
OpsUpTo(n) == SubSeq(OpOrder, 1, n)

\* the number of operations called when the script is at p inside an attempt
OpsAt(p) ==
  CASE p \in {"fetch_puzzleId", "sleep_puzzleId"} -> 2
    [] p \in {"fetch_puzzleImage", "sleep_puzzleImage"} -> 3
    [] p \in {"solve", "solve_wait", "sleep_solve"} -> 4
    [] p = "fetch_login" -> 5
    [] p \in {"fetch_points", "sleep_points", "notify_success"} -> 6
    [] p = "append_success" -> 7

\* the number of operations called when the attempt was given up with e
OpsAtError(e) ==
  CASE e = "puzzle_id" -> 2
    [] e = "puzzle_image" -> 3
    [] e \in {"captcha", "captcha_timeout"} -> 4
    [] e \in {"rejected", "transport"} -> 5

\* errors of the steps from the identity to the login submission
StepErrors ==
  {"puzzle_id", "puzzle_image", "captcha", "captcha_timeout", "rejected",
   "transport"}

\* C22: inside one login attempt the orchestrator calls the operations in
\* the order identity, puzzle id, puzzle image, captcha solving, login
\* submission, points query, success record; an error of a step up to the
\* login submission ends the attempt with no later operation called, and
\* the orchestrator then waits for the retry, or, under the bounded policy
\* on the last attempt, records the failure.
C22_FixedOrder ==
  /\ InAttempt => ops = OpsUpTo(OpsAt(pc)) /\ err = "none"
  /\ err \in StepErrors =>
       /\ ops = OpsUpTo(OpsAtError(err))
       /\ pc \in {"append_failure", "sleep_login", "notify_failed",
                  "notify_waiting", "notify_attempt", "attempt_start",
                  "returned", "sleep_pause", "main_loop", "notify_processing",
                  "notify_completed", "done"}
       /\ pc = "append_failure" =>
            policy = "bounded" /\ loginAttempt = LOGIN_RETRIES
       /\ pc \in {"sleep_login", "notify_failed", "notify_waiting"} =>
            policy = "unbounded" \/ loginAttempt < LOGIN_RETRIES
       /\ pc \in {"returned", "sleep_pause", "main_loop", "notify_processing",
                  "notify_completed", "done"} =>
            /\ policy = "bounded"
            /\ loginAttempt = LOGIN_RETRIES
            /\ failLog # <<>>
            /\ failLog[Len(failLog)].email \in {index, index + 1}

\* C22 witness: the captcha solving of an attempt failed after the identity
\* and both puzzle requests, and the retry wait has begun with no login
\* submitted.
C22_Witness ==
  /\ err = "captcha"
  /\ pc = "sleep_login"
  /\ ops = <<"identity", "puzzle_id", "puzzle_image", "solve">>
  /\ lastReq.op = "puzzle_image"

\* the script is in the catch block of the orchestrator
InCatch ==
  pc \in {"append_failure", "sleep_login", "notify_failed", "notify_waiting"}

\* C23: a login that the server rejected (a status that is not ok in
\* loginAccount, a message other than 'Successfully logged in!' in
\* loginAccountWithRetry) writes no success line and is handled in the
\* catch block exactly as a login request that threw: no token, no points
\* query, the same attempt used up, the same wait of the attempt, and the
\* failure line only under the bounded policy on the last attempt.
C23_RejectionLikeTransport ==
  (err \in {"rejected", "transport"} /\ InCatch) =>
    /\ token = 0
    /\ pointsResp = NoResp
    /\ lastReq.op = "login"
    /\ Count(successLog, Current.email) = 0
    /\ attemptsMade = loginAttempt
    /\ pc = "append_failure" <=>
         (policy = "bounded" /\ loginAttempt = LOGIN_RETRIES)
    /\ pc \in {"notify_failed", "notify_waiting"} => telegramBot
    /\ pc = "sleep_login" =>
         wait = LoginWait(IF policy = "bounded"
                          THEN loginRetryDelay(loginAttempt)
                          ELSE calculateRetryDelay(loginAttempt))

\* C23 witness: the second login of an account was rejected by the server
\* under the unbounded policy, and the wait of the second attempt runs.
C23_Witness ==
  /\ policy = "unbounded"
  /\ err = "rejected"
  /\ pc = "sleep_login"
  /\ loginAttempt = 2
  /\ wait = [kind |-> "login", num |-> 15000, den |-> 2]

\* the attempt in hand is the last one the policy allows
FinalAttempt == policy = "bounded" /\ loginAttempt = LOGIN_RETRIES

\* C24: an error of a helper or of the login submission never leaves the
\* orchestrator: the only error that does is a rejected append of the
\* failure line, inside the catch block of the last bounded attempt.  An
\* error on any other attempt leads to the wait and then to the next
\* attempt of the same account, and a failure line is written only under the
\* bounded policy once all its attempts are used up.
C24_CaughtAtBoundary ==
  /\ pc = "fatal" => err = "append_failure" /\ FinalAttempt
  /\ (err # "none" /\ ~FinalAttempt) =>
       /\ pc \in {"sleep_login", "notify_failed", "notify_waiting",
                  "notify_attempt", "attempt_start"}
       /\ Count(failLog, Current.email) = 0
       /\ pc \in {"notify_attempt", "attempt_start"} =>
            attemptsMade = loginAttempt - 1 /\ lastDelay.num > 0
  /\ pc = "append_failure" => FinalAttempt /\ err # "none"
  /\ \A i \in 1..Len(failLog) :
       /\ policy = "bounded"
       /\ failLog[i].email <= index + 1
       /\ failLog[i].email = index + 1 => attemptsMade = LOGIN_RETRIES

\* C24 witness: under the bounded policy the second attempt of an account
\* failed in getPuzzleImage, the wait is over and the third attempt is about
\* to begin.
C24_Witness ==
  /\ policy = "bounded"
  /\ err = "puzzle_image"
  /\ pc = "attempt_start"
  /\ loginAttempt = 3
  /\ attemptsMade = 2

\* C25 (as stated): a run that ends on a fatal condition of main, an
\* unreadable file.txt included, has printed the counts before it ends, and
\* with the Telegram sink open it has sent a report of the condition.
C25_FatalFlushed ==
  /\ (pc = "no_credentials" /\ ~fileReadable) =>
       /\ countsEmitted
       /\ SinkOpen => delivery # "none"
  /\ pc = "fatal" => countsEmitted

\* the script is inside a call of a helper with a retry loop
InSubRequest ==
  pc \in {"fetch_puzzleId", "sleep_puzzleId", "fetch_puzzleImage",
          "sleep_puzzleImage", "solve", "sleep_solve", "fetch_points",
          "sleep_points"}

\* C26: the try counter of every helper call starts at 1 (it equals the
\* number of tries the call in hand has made), and the attempt counter of
\* the orchestrator starts at 1 for every account (it equals the number of
\* attempts made for the account in hand): no account starts with attempts
\* used up or with a wait longer than the first one.
C26_CountersScoped ==
  /\ InSubRequest => attempt = tries /\ attempt \in 1..MAX_RETRIES
  /\ (InAttempt \/ InCatch) => loginAttempt = attemptsMade
  /\ (pc = "sleep_login" /\ attemptsMade = 1) =>
       wait = [kind |-> "login", num |-> 5000, den |-> 1]
  /\ (InAttempt /\ attemptsMade = 1) =>
       backoffs = 0 /\ lastDelay = NoDelay

\* C26 witness: the first account used up its three attempts, and the first
\* attempt of the second account failed and waits the first delay.
C26_Witness ==
  /\ index = 1
  /\ Count(failLog, Cred(1).email) = 1
  /\ pc = "sleep_login"
  /\ loginAttempt = 1
  /\ wait = [kind |-> "login", num |-> 5000, den |-> 1]

\* what getUserPoints returned for the response the attempt got
PointsOfResponse ==
  IF pointsResp.kind = "success" THEN totalPoints(pointsResp.data) ELSE 0

\* C28: the success line written by an attempt names the account in hand
\* and carries the token the server issued to the login request of this
\* same attempt (the request that carried the identity of the attempt); in
\* the proxy variant it also carries the password of the account and the
\* total that getUserPoints returned in this attempt.  The failure line
\* names the account in hand and carries its password.  Every line of
\* either log belongs to one account of file.txt.
C28_RecordContents ==
  /\ (pc = "returned" /\ result) =>
       LET line == successLog[Len(successLog)] IN
         /\ line.email = Current.email
         /\ line.token = tokenOf(lastReq)
         /\ line.token = appId
         /\ appIdOwner = <<index, loginAttempt>>
         /\ policy = "bounded" =>
              /\ line.password = Current.password
              /\ line.points = PointsOfResponse
  /\ (pc = "returned" /\ ~result) =>
       failLog[Len(failLog)] =
         [email |-> Current.email, password |-> Current.password]
  /\ \A i \in 1..Len(successLog) :
       /\ \E k \in 1..Len(credentials) :
            /\ successLog[i].email = credentials[k].email
            /\ policy = "bounded" =>
                 successLog[i].password = credentials[k].password
       /\ successLog[i].token \in 1..appIdSeq
       /\ \A j \in 1..Len(successLog) :
            successLog[j].token = successLog[i].token => j = i
  /\ \A i \in 1..Len(failLog) :
       \E k \in 1..Len(credentials) : failLog[i] = credentials[k]

\* C28 witness: in the proxy variant the second account logged in on its
\* second attempt and its line carries its own password, the token of that
\* attempt and the total of the points response.
C28_Witness ==
  /\ policy = "bounded"
  /\ pc = "returned"
  /\ result
  /\ index = 1
  /\ loginAttempt = 2
  /\ successLog[Len(successLog)] =
       [email |-> 2, password |-> 102, token |-> appId,
        points |-> SERVER_POINTS]

\* C29 (as stated): an account whose login was accepted is never logged in
\* again and never written to failed_logins.txt: when appendFile of the
\* success line rejected after an accepted login, the orchestrator neither
\* waits for another attempt nor appends the failure line.
C29_AcceptedNeverFails ==
  (err = "append_success" /\ index < Len(credentials)) =>
    /\ pc \notin {"sleep_login", "notify_failed", "notify_waiting",
                  "notify_attempt", "attempt_start", "append_failure"}
    /\ Count(failLog, Current.email) = 0

\* the awaits of an HTTP request
FetchPcs == {"fetch_puzzleId", "fetch_puzzleImage", "fetch_login", "fetch_points"}

\* the step sends an HTTP request: the script arrives at the await of a fetch
RequestIssued == pc' \in FetchPcs /\ pc' # pc

C30_State ==
  (useProxies /\ Len(proxyList) > 0) =>
    /\ currentProxyIndex \in 0..(Len(proxyList) - 1)
    /\ (pc \in FetchPcs) =>
         /\ lastReq.proxy = lastProxy
         /\ lastReq.proxy =
              proxyList[((currentProxyIndex + Len(proxyList) - 1)
                          % Len(proxyList)) + 1]

C30_Step ==
  (useProxies /\ Len(proxyList) > 0) =>
    /\ RequestIssued =>
         /\ currentProxyIndex' = (currentProxyIndex + 1) % Len(proxyList)
         /\ lastReq'.proxy = proxyList[currentProxyIndex + 1]
    /\ ~RequestIssued =>
         /\ currentProxyIndex' = currentProxyIndex
         /\ lastReq' = lastReq

\* C30: with proxies in use and a pool of K > 0 entries, currentProxyIndex
\* is always in 0..K-1; every step that sends an HTTP request (a try of
\* getPuzzleId, getPuzzleImage or getUserPoints, or the login POST) sends it
\* through the entry under the cursor and moves the cursor on by one modulo
\* K, and no other step (the solver, a sleep, a result line) moves it: the
\* requests of one attempt go through consecutive entries of the pool.
C30_CursorPerRequest == []C30_State /\ [][C30_Step]_vars

\* C30 witness: the login POST of an attempt without retries is the third
\* request of the run and goes through the third entry of the pool, after
\* the first two entries carried the puzzle requests.
C30_Witness ==
  /\ useProxies
  /\ Len(proxyList) = 3
  /\ pc = "fetch_login"
  /\ proxyCalls = 3
  /\ lastReq = [op |-> "login", appid |-> appId, proxy |-> proxyList[3]]
  /\ currentProxyIndex = 0

C31_BoundedTerminates ==
  policy = "bounded" =>
    /\ attemptsMade <= LOGIN_RETRIES
    /\ ~ENABLED Next =>
         /\ pc \in {"done", "no_credentials"}
         /\ pc = "done" =>
              /\ countsEmitted
              /\ \A i \in 1..Len(credentials) : RecordsOf(i) = 1

\* C32: under the unbounded policy main goes on to account i + 1 only when
\* loginAccountWithRetry returned for account i, which it does only with
\* the success line of the account written: every earlier account has its
\* success line, and while the account in hand has none, no later account
\* has an identity, a request or a record.  When the run completes, failed
\* is 0 and successful is the number of accounts.
C32_BlockedBehindAccount ==
  policy = "unbounded" =>
    /\ \A i \in 1..Len(credentials) :
         /\ i <= index => Count(successLog, Cred(i).email) = 1
         /\ i > index + 1 => RecordsOf(i) = 0
    /\ appIdOwner[1] <= index
    /\ (index < Len(credentials)
        /\ Count(successLog, Current.email) = 0) =>
         /\ pc \notin {"returned", "sleep_pause", "notify_completed", "done"}
         /\ Len(successLog) = index
    /\ (pc = "main_loop" /\ index > 0) => successful = index /\ failed = 0
    /\ pc \in {"notify_completed", "done"} =>
         /\ failed = 0
         /\ successful = Len(credentials)
         /\ Len(successLog) = Len(credentials)

\* C32 witness: the first of two accounts has failed three attempts and
\* waits for the fourth, and the second account has not been started.
C32_Witness ==
  /\ policy = "unbounded"
  /\ Len(credentials) = 2
  /\ index = 0
  /\ loginAttempt = 3
  /\ pc = "sleep_login"
  /\ successLog = <<>>
  /\ appIdOwner = <<0, 3>>

C33_Step ==
  (telegramBot /\ pc = "solve_wait" /\ pc' = "fetch_login") =>
    /\ telegramChatId # NoChat
    /\ lastChat' = telegramChatId

\* C33 (as stated): with the Telegram solver the text processCaptcha returns
\* is the text of a message from the bound chat (telegramChatId), received
\* after the photo was sent there: the step that ends the wait with an
\* answer is never the arrival of a message from another chat.
C33_AnswerFromBoundChat == [][C33_Step]_vars

\* C34: under the bounded policy the wait begun after failed attempt k < 3
\* is 5000 * k ms and runs while the identity of attempt k is still the
\* latest one, so attempt k + 1 generates its identity only after the wait;
\* every attempt k >= 2 has k - 1 waits behind it, the last of 5000 * (k - 1)
\* ms; and after the failed 3rd attempt no wait is begun: the failure line
\* is appended at once.
C34_BoundedBackoff ==
  policy = "bounded" =>
    /\ pc = "sleep_login" =>
         /\ loginAttempt < 3
         /\ wait = [kind |-> "login", num |-> 5000 * loginAttempt, den |-> 1]
         /\ backoffs = loginAttempt - 1
         /\ appIdOwner = <<index, loginAttempt>>
         /\ attemptsMade = loginAttempt
    /\ (pc = "attempt_start" /\ loginAttempt >= 2) =>
         /\ lastDelay = [num |-> 5000 * (loginAttempt - 1), den |-> 1]
         /\ backoffs = loginAttempt - 1
         /\ appIdOwner = <<index, loginAttempt - 1>>
         /\ wait.kind = "none"
    /\ InAttempt =>
         /\ backoffs = loginAttempt - 1
         /\ wait.kind # "login"
         /\ loginAttempt >= 2 =>
              lastDelay = [num |-> 5000 * (loginAttempt - 1), den |-> 1]
    /\ pc = "append_failure" =>
         /\ loginAttempt = 3
         /\ backoffs = 2
         /\ wait.kind = "none"
         /\ lastDelay = [num |-> 10000, den |-> 1]
    /\ (pc = "returned" /\ ~result) => backoffs = 2 /\ wait.kind = "none"

\* C34 witness: the second attempt of the second account failed and the
\* 10000 ms wait runs; the third attempt has no identity yet.
C34_Witness ==
  /\ policy = "bounded"
  /\ index = 1
  /\ pc = "sleep_login"
  /\ loginAttempt = 2
  /\ wait = [kind |-> "login", num |-> 10000, den |-> 1]
  /\ appIdOwner = <<1, 2>>
====
